---- MODULE Spec2Model ----
(***************************************************************************)
(* TrueCaser (src/truecase/TrueCaser.py): the scoring function get_score,  *)
(* the out-of-vocabulary handler and the per-token decision loop of        *)
(* get_true_case_from_tokens.                                              *)
(*                                                                         *)
(* A token is a sequence of one-character strings (<<"a","B">> is "aB").   *)
(* The characters are ASCII.  Python's None is the value None below, which *)
(* is no token.  A score is math.log of a product of four ratios of        *)
(* positive numbers; it is kept as the exact ratio <<num, den>> of that    *)
(* product, log being strictly increasing, and float("-inf") is the ratio  *)
(* <<0, 1>>.                                                               *)
(***************************************************************************)
EXTENDS Integers, Sequences, FiniteSets, TLC

VARIABLES
    word_casing_lookup,  \* self.word_casing_lookup : key -> set of variants
    uni_dist,            \* self.uni_dist           : key -> count
    backward_bi_dist,    \* self.backward_bi_dist
    forward_bi_dist,     \* self.forward_bi_dist
    trigram_dist,        \* self.trigram_dist
    tokens,              \* argument tokens of get_true_case_from_tokens
    option,              \* argument out_of_vocabulary_token_option
    tokens_true_case,    \* the local list tokens_true_case
    token_idx,           \* the loop index (number of iterations completed)
    pc,                  \* "loop", "returned" or "raised"
    scored,              \* positions at which get_score was called (history)
    rerun_true_case      \* tokens_true_case of a second call on the same input

vars == <<word_casing_lookup, uni_dist, backward_bi_dist, forward_bi_dist,
          trigram_dist, tokens, option, tokens_true_case, token_idx, pc,
          scored, rerun_true_case>>

model == <<word_casing_lookup, uni_dist, backward_bi_dist, forward_bi_dist,
           trigram_dist>>

----------------------------------------------------------------------------
(* Bounds of the enumerated inputs *)

MaxSentenceLen == 3
MaxCount == 1
FarCount == 20

----------------------------------------------------------------------------
(* Characters and Python's str methods *)

None == <<"None">>

ascii_lowercase == <<"a","b","c","d","e","f","g","h","i","j","k","l","m",
                     "n","o","p","q","r","s","t","u","v","w","x","y","z">>
ascii_uppercase == <<"A","B","C","D","E","F","G","H","I","J","K","L","M",
                     "N","O","P","Q","R","S","T","U","V","W","X","Y","Z">>
digits == {"0","1","2","3","4","5","6","7","8","9"}
whitespace == {" "}

\* the backquote character (the lexer of TLA+ rejects it inside a string)
grave == "backquote"

\* string.punctuation
punctuation == <<"!","\"","#","$","%","&","'","(",")","*","+",",","-",".",
                 "/",":",";","<","=",">","?","@","[","\\","]","^","_",grave,
                 "{","|","}","~">>

lower_letters == {ascii_lowercase[i] : i \in 1..Len(ascii_lowercase)}
upper_letters == {ascii_uppercase[i] : i \in 1..Len(ascii_uppercase)}

IsLower(c) == c \in lower_letters
IsUpper(c) == c \in upper_letters
IsCased(c) == IsLower(c) \/ IsUpper(c)

to_lower ==
    [c \in upper_letters |->
        ascii_lowercase[CHOOSE i \in 1..Len(ascii_uppercase) : ascii_uppercase[i] = c]]
to_upper ==
    [c \in lower_letters |->
        ascii_uppercase[CHOOSE i \in 1..Len(ascii_lowercase) : ascii_lowercase[i] = c]]

char_lower(c) == IF IsUpper(c) THEN to_lower[c] ELSE c
char_upper(c) == IF IsLower(c) THEN to_upper[c] ELSE c

\* str.lower
lower(s) == [i \in 1..Len(s) |-> char_lower(s[i])]

\* str.capitalize: first character upper-cased, the others lower-cased
capitalize(s) ==
    [i \in 1..Len(s) |-> IF i = 1 THEN char_upper(s[i]) ELSE char_lower(s[i])]

\* str.title: a scan that carries previous_is_cased
RECURSIVE title_scan(_, _, _)
title_scan(s, i, previous_is_cased) ==
    IF i > Len(s) THEN <<>>
    ELSE <<(IF previous_is_cased THEN char_lower(s[i]) ELSE char_upper(s[i]))>>
         \o title_scan(s, i + 1, IsCased(s[i]))

title(s) == title_scan(s, 1, FALSE)

\* str.isdigit
isdigit(s) == Len(s) > 0 /\ \A i \in 1..Len(s) : s[i] \in digits

\* token in string.punctuation: a substring test
punctuation_substrings ==
    {SubSeq(punctuation, i, j) : i \in 1..(Len(punctuation) + 1),
                                 j \in 0..Len(punctuation)}
in_punctuation(s) == s \in punctuation_substrings

\* a + "_" + b
underscore(a, b) == a \o <<"_">> \o b

----------------------------------------------------------------------------
(* The model tables *)

\* table[key] of a distribution: a key never seen counts 0
count(table, key) == IF key \in DOMAIN table THEN table[key] ELSE 0

pseudo_count == 5

RECURSIVE SumOver(_, _)
SumOver(f, S) ==
    IF S = {} THEN 0
    ELSE LET x == CHOOSE x \in S : TRUE IN f[x] + SumOver(f, S \ {x})

Self == [word_casing_lookup |-> word_casing_lookup,
         uni_dist |-> uni_dist,
         backward_bi_dist |-> backward_bi_dist,
         forward_bi_dist |-> forward_bi_dist,
         trigram_dist |-> trigram_dist]

NegInf == <<0, 1>>
ScoreGreater(a, b) == a[1] * b[2] > b[1] * a[2]

\* variant: the unigram ratio is taken upside down
get_score_inverted(self, prev_token, possible_token, next_token) ==
    LET alternatives == self.word_casing_lookup[lower(possible_token)]
        uni_num == count(self.uni_dist, possible_token) + pseudo_count
        uni_den == SumOver([a \in alternatives |->
                      count(self.uni_dist, a) + pseudo_count], alternatives)
    IN  <<uni_den, uni_num>>

\* Every variant of the tables below lower-cases to its own key, so the
\* lookup of possible_token.lower() is always defined.
get_score(self, prev_token, possible_token, next_token) ==
    LET alternatives == self.word_casing_lookup[lower(possible_token)]
        nxt == IF next_token = None THEN None ELSE lower(next_token)
        uni_num == count(self.uni_dist, possible_token) + pseudo_count
        uni_den == SumOver([a \in alternatives |->
                      count(self.uni_dist, a) + pseudo_count], alternatives)
        bwd_num == IF prev_token = None THEN 1
                   ELSE count(self.backward_bi_dist,
                              underscore(prev_token, possible_token)) + pseudo_count
        bwd_den == IF prev_token = None THEN 1
                   ELSE SumOver([a \in alternatives |->
                           count(self.backward_bi_dist, underscore(prev_token, a))
                           + pseudo_count], alternatives)
        fwd_num == IF nxt = None THEN 1
                   ELSE count(self.forward_bi_dist,
                              underscore(possible_token, nxt)) + pseudo_count
        fwd_den == IF nxt = None THEN 1
                   ELSE SumOver([a \in alternatives |->
                           count(self.forward_bi_dist, underscore(a, nxt))
                           + pseudo_count], alternatives)
        tri_num == IF prev_token = None \/ nxt = None THEN 1
                   ELSE count(self.trigram_dist,
                              underscore(underscore(prev_token, possible_token), nxt))
                        + pseudo_count
        tri_den == IF prev_token = None \/ nxt = None THEN 1
                   ELSE SumOver([a \in alternatives |->
                           count(self.trigram_dist,
                                 underscore(underscore(prev_token, a), nxt))
                           + pseudo_count], alternatives)
    IN  <<uni_num * bwd_num * fwd_num * tri_num,
          uni_den * bwd_den * fwd_den * tri_den>>

----------------------------------------------------------------------------
(* The helpers of the decision loop *)

first_token_case(raw) == capitalize(raw)

\* callables a caller may pass as out_of_vocabulary_token_option
CallableOptions == {"append_mark"}
call(f, token_og_case) == token_og_case \o <<"?">>

\* variant: the callable is handed the lower-cased token
out_of_vocabulary_handler_lowered(token_og_case, out_of_vocabulary_token_option) ==
    IF out_of_vocabulary_token_option \in CallableOptions
    THEN call(out_of_vocabulary_token_option, lower(token_og_case))
    ELSE IF out_of_vocabulary_token_option = "title" THEN title(token_og_case)
    ELSE IF out_of_vocabulary_token_option = "capitalize" THEN capitalize(token_og_case)
    ELSE IF out_of_vocabulary_token_option = "lower" THEN lower(token_og_case)
    ELSE title(token_og_case)

out_of_vocabulary_handler(token_og_case, out_of_vocabulary_token_option) ==
    IF out_of_vocabulary_token_option \in CallableOptions
    THEN call(out_of_vocabulary_token_option, token_og_case)
    ELSE IF out_of_vocabulary_token_option = "title" THEN title(token_og_case)
    ELSE IF out_of_vocabulary_token_option = "capitalize" THEN capitalize(token_og_case)
    ELSE IF out_of_vocabulary_token_option = "lower" THEN lower(token_og_case)
    ELSE title(token_og_case)

\* variant: the isdigit test is left out
is_passthrough_punctuation_only(token) == in_punctuation(token)

\* token in string.punctuation or token.isdigit()
is_passthrough(token) == in_punctuation(token) \/ isdigit(token)

\* the orders in which a set may be iterated
Orders(S) ==
    {o \in [1..Cardinality(S) -> S] :
        \A i, j \in 1..Cardinality(S) : i # j => o[i] # o[j]}

\* variant: highest_score is never updated, so the last variant wins
RECURSIVE scan_variants_stale(_, _, _, _, _, _, _)
scan_variants_stale(self, order, i, best_token, highest_score, prev_token, next_token) ==
    IF i > Len(order) THEN best_token
    ELSE LET score == get_score(self, prev_token, order[i], next_token)
         IN  IF ScoreGreater(score, highest_score)
             THEN scan_variants_stale(self, order, i + 1, order[i], highest_score,
                                      prev_token, next_token)
             ELSE scan_variants_stale(self, order, i + 1, best_token, highest_score,
                                      prev_token, next_token)

\* for possible_token in self.word_casing_lookup[token]: keep the first
\* variant whose score is strictly greater than every score seen before it
RECURSIVE scan_variants(_, _, _, _, _, _, _)
scan_variants(self, order, i, best_token, highest_score, prev_token, next_token) ==
    IF i > Len(order) THEN best_token
    ELSE LET score == get_score(self, prev_token, order[i], next_token)
         IN  IF ScoreGreater(score, highest_score)
             THEN scan_variants(self, order, i + 1, order[i], score,
                                prev_token, next_token)
             ELSE scan_variants(self, order, i + 1, best_token, highest_score,
                                prev_token, next_token)

\* variant: the single-variant branch appends the lower-cased token
in_vocabulary_choice_key(self, order, token, prev_token, next_token) ==
    IF Len(order) = 1 THEN token
    ELSE scan_variants(self, order, 1, None, NegInf, prev_token, next_token)

\* the token appended for an in-vocabulary key whose variants are iterated
\* in the given order
in_vocabulary_choice(self, order, token, prev_token, next_token) ==
    IF Len(order) = 1 THEN order[1]
    ELSE scan_variants(self, order, 1, None, NegInf, prev_token, next_token)

\* variant: a punctuation or digit token is skipped
passthrough_skip(true_case, token) == true_case

passthrough_commit(true_case, token) == Append(true_case, token)

oov_commit(true_case, token_og_case, opt) ==
    Append(true_case, out_of_vocabulary_handler(token_og_case, opt))

\* variant: the left context is the raw previous token
in_vocabulary_commit_raw_prev(self, toks, true_case, idx, order) ==
    LET token == lower(toks[idx + 1])
        prev_token == IF idx > 0 THEN toks[idx] ELSE None
        next_token == IF idx < Len(toks) - 1 THEN toks[idx + 2] ELSE None
        appended == Append(true_case,
                       in_vocabulary_choice(self, order, token, prev_token, next_token))
    IN  IF idx = 0
        THEN IF appended[1] = None
             THEN [list |-> appended, raised |-> TRUE]
             ELSE [list |-> [appended EXCEPT ![1] = first_token_case(appended[1])],
                   raised |-> FALSE]
        ELSE [list |-> appended, raised |-> FALSE]

\* the in-vocabulary branch of one iteration: the list it leaves, and
\* whether first_token_case was called on None (AttributeError)
in_vocabulary_commit(self, toks, true_case, idx, order) ==
    LET token == lower(toks[idx + 1])
        prev_token == IF idx > 0 THEN true_case[idx] ELSE None
        next_token == IF idx < Len(toks) - 1 THEN toks[idx + 2] ELSE None
        appended == Append(true_case,
                       in_vocabulary_choice(self, order, token, prev_token, next_token))
    IN  IF idx = 0
        THEN IF appended[1] = None
             THEN [list |-> appended, raised |-> TRUE]
             ELSE [list |-> [appended EXCEPT ![1] = first_token_case(appended[1])],
                   raised |-> FALSE]
        ELSE [list |-> appended, raised |-> FALSE]

\* one iteration of the loop of get_true_case_from_tokens
iteration(self, toks, opt, true_case, idx, order) ==
    IF is_passthrough(toks[idx + 1])
    THEN [list |-> passthrough_commit(true_case, toks[idx + 1]), raised |-> FALSE]
    ELSE IF lower(toks[idx + 1]) \in DOMAIN self.word_casing_lookup
    THEN in_vocabulary_commit(self, toks, true_case, idx, order)
    ELSE [list |-> oov_commit(true_case, toks[idx + 1], opt), raised |-> FALSE]

\* the variants the iteration at idx iterates over (none outside the
\* in-vocabulary branch)
iterated(self, toks, idx) ==
    IF ~is_passthrough(toks[idx + 1])
       /\ lower(toks[idx + 1]) \in DOMAIN self.word_casing_lookup
    THEN self.word_casing_lookup[lower(toks[idx + 1])]
    ELSE {}

----------------------------------------------------------------------------
(* The enumerated inputs *)

Options == {"title", "capitalize", "lower", "as-is"} \cup CallableOptions

\* one word, a'b, with the casings A'B and a'b; raw tokens: the word in a
\* third casing, a number and a punctuation mark
Key == <<"a", "'", "b">>
v_upper == <<"A", "'", "B">>
v_lower == <<"a", "'", "b">>
v_first == <<"A", "'", "b">>
VariantPool == {v_upper, v_lower}
TokenPool == {<<"a", "'", "B">>, <<"1">>, <<".">>}

Sentences == UNION {[1..k -> TokenPool] : k \in 0..MaxSentenceLen}

\* the key is absent, or present with any set of variants of it
Lookups == {[k \in {} |-> {}]} \cup {[k \in {Key} |-> S] : S \in SUBSET VariantPool}

\* a key of a distribution was never seen, or seen MaxCount times
Counts == {0, MaxCount}

\* the keys of the bigram and trigram tables: the left neighbour is the
\* sentence-initial form of the word, the right neighbour its lower case
BackwardKeys == {underscore(v_first, v_lower)}
ForwardKeys == {underscore(v_upper, v_lower)}
TrigramKeys == {underscore(underscore(v_first, v_lower), v_lower)}

\* the tables a run may be given: with two variants to score, every
\* combination of counts; otherwise no key of a distribution was seen, or
\* every key was seen MaxCount times
Tables(lookup, uni, backward, forward, trigram) ==
    [word_casing_lookup |-> lookup, uni_dist |-> uni, backward_bi_dist |-> backward,
     forward_bi_dist |-> forward, trigram_dist |-> trigram]

Models ==
    {Tables([k \in {Key} |-> VariantPool], u, b, f, t) :
        u \in [VariantPool -> Counts], b \in [BackwardKeys -> Counts],
        f \in [ForwardKeys -> Counts], t \in [TrigramKeys -> Counts]}
    \cup
    {Tables(l, [k \in VariantPool |-> c], [k \in BackwardKeys |-> c],
            [k \in ForwardKeys |-> c], [k \in TrigramKeys |-> c]) :
        l \in Lookups \ {[k \in {Key} |-> VariantPool]}, c \in Counts}

InitCall ==
    /\ tokens_true_case = <<>>
    /\ token_idx = 0
    /\ pc = "loop"
    /\ scored = {}
    /\ rerun_true_case = <<>>

Init ==
    /\ \E m \in Models :
          /\ word_casing_lookup = m.word_casing_lookup
          /\ uni_dist = m.uni_dist
          /\ backward_bi_dist = m.backward_bi_dist
          /\ forward_bi_dist = m.forward_bi_dist
          /\ trigram_dist = m.trigram_dist
    /\ tokens \in Sentences
    /\ option \in Options
    /\ InitCall

----------------------------------------------------------------------------
(* get_true_case_from_tokens: one action per branch of the loop body *)

PassThrough ==
    /\ pc = "loop" /\ token_idx < Len(tokens)
    /\ is_passthrough(tokens[token_idx + 1])
    /\ tokens_true_case' = passthrough_commit(tokens_true_case, tokens[token_idx + 1])
    /\ token_idx' = token_idx + 1
    /\ UNCHANGED <<model, tokens, option, pc, scored, rerun_true_case>>

InVocabulary ==
    /\ pc = "loop" /\ token_idx < Len(tokens)
    /\ ~is_passthrough(tokens[token_idx + 1])
    /\ lower(tokens[token_idx + 1]) \in DOMAIN word_casing_lookup
    /\ \E order \in Orders(word_casing_lookup[lower(tokens[token_idx + 1])]) :
          LET r == in_vocabulary_commit(Self, tokens, tokens_true_case, token_idx, order)
          IN  /\ tokens_true_case' = r.list
              /\ pc' = IF r.raised THEN "raised" ELSE pc
              /\ token_idx' = IF r.raised THEN token_idx ELSE token_idx + 1
              /\ scored' = IF Len(order) >= 2 THEN scored \cup {token_idx} ELSE scored
    /\ UNCHANGED <<model, tokens, option, rerun_true_case>>

OutOfVocabulary ==
    /\ pc = "loop" /\ token_idx < Len(tokens)
    /\ ~is_passthrough(tokens[token_idx + 1])
    /\ lower(tokens[token_idx + 1]) \notin DOMAIN word_casing_lookup
    /\ tokens_true_case' = oov_commit(tokens_true_case, tokens[token_idx + 1], option)
    /\ token_idx' = token_idx + 1
    /\ UNCHANGED <<model, tokens, option, pc, scored, rerun_true_case>>

Return ==
    /\ pc = "loop" /\ token_idx = Len(tokens)
    /\ pc' = "returned"
    /\ UNCHANGED <<model, tokens, option, tokens_true_case, token_idx, scored,
                   rerun_true_case>>

Next == PassThrough \/ InVocabulary \/ OutOfVocabulary \/ Return

Spec == Init /\ [][Next]_vars

----------------------------------------------------------------------------
(* Two calls of get_true_case_from_tokens on the same tokens, option and   *)
(* tables, each iterating the variant sets in an order of its own          *)

BothIterate ==
    /\ pc = "loop" /\ token_idx < Len(tokens)
    /\ \E order \in Orders(iterated(Self, tokens, token_idx)),
          reorder \in Orders(iterated(Self, tokens, token_idx)) :
          LET r == iteration(Self, tokens, option, tokens_true_case, token_idx, order)
              rr == iteration(Self, tokens, option, rerun_true_case, token_idx, reorder)
          IN  /\ tokens_true_case' = r.list
              /\ rerun_true_case' = rr.list
              /\ pc' = IF r.raised \/ rr.raised THEN "raised" ELSE pc
              /\ token_idx' = IF r.raised \/ rr.raised THEN token_idx ELSE token_idx + 1
              /\ scored' = IF Len(order) >= 2 THEN scored \cup {token_idx} ELSE scored
    /\ UNCHANGED <<model, tokens, option>>

BothReturn ==
    /\ pc = "loop" /\ token_idx = Len(tokens)
    /\ pc' = "returned"
    /\ UNCHANGED <<model, tokens, option, tokens_true_case, token_idx, scored,
                   rerun_true_case>>

NextTwoRuns == BothIterate \/ BothReturn

SpecTwoRuns == Init /\ [][NextTwoRuns]_vars

----------------------------------------------------------------------------
(* The end-to-end scenario: "the united states is a country ." *)

w_the == <<"t","h","e">>
w_The == <<"T","h","e">>
w_united == <<"u","n","i","t","e","d">>
w_United == <<"U","n","i","t","e","d">>
w_states == <<"s","t","a","t","e","s">>
w_States == <<"S","t","a","t","e","s">>
w_is == <<"i","s">>
w_a == <<"a">>
w_country == <<"c","o","u","n","t","r","y">>
w_dot == <<".">>

ScenarioTokens == <<w_the, w_united, w_states, w_is, w_a, w_country, w_dot>>
ScenarioExpected == <<w_The, w_United, w_States, w_is, w_a, w_country, w_dot>>

ScenarioVariants(k) ==
    IF k = w_united THEN {w_United, w_united}
    ELSE IF k = w_states THEN {w_States, w_states}
    ELSE {k}

\* 'the' is absent, or has the variants {the} or {The, the}
ScenarioLookups ==
    {[k \in {w_united, w_states, w_is, w_a, w_country} |-> ScenarioVariants(k)]}
    \cup {[k \in {w_the, w_united, w_states, w_is, w_a, w_country} |->
             IF k = w_the THEN S ELSE ScenarioVariants(k)] :
          S \in {{w_the}, {w_The, w_the}}}

\* backward bigrams: United_States is seen FarCount times more often than
\* united_states, which is hardly ever seen; United_states is the key the
\* scorer compares United_States to
ScenarioBackward ==
    {[k \in {underscore(w_United, w_States), underscore(w_united, w_states),
              underscore(w_United, w_states)} |->
         IF k = underscore(w_United, w_States) THEN FarCount + MaxCount
         ELSE IF k = underscore(w_united, w_states) THEN c
         ELSE d] : c \in Counts, d \in {0, 2 * (FarCount + MaxCount)}}

InitScenario ==
    /\ word_casing_lookup \in ScenarioLookups
    /\ uni_dist \in [{w_United, w_united} -> Counts]
    /\ backward_bi_dist \in ScenarioBackward
    /\ forward_bi_dist \in [{underscore(w_united, w_states)} -> Counts]
    /\ trigram_dist = [k \in {} |-> 0]
    /\ tokens = ScenarioTokens
    /\ option \in Options
    /\ InitCall

SpecScenario == InitScenario /\ [][Next]_vars

----------------------------------------------------------------------------
(* Properties *)

\* the punctuation-or-all-digits predicate of the specification
PunctuationOrDigits(t) == in_punctuation(t) \/ isdigit(t)

\* t starts with an upper-cased character and continues lower-cased
SentenceInitialForm(t) ==
    /\ t # None
    /\ \A k \in 1..Len(t) : IF k = 1 THEN ~IsLower(t[k]) ELSE ~IsUpper(t[k])

\* each whitespace-delimited segment of raw capitalized
SegmentsCapitalized(raw) ==
    [k \in 1..Len(raw) |->
        IF k = 1 \/ (k > 1 /\ raw[k - 1] \in whitespace)
        THEN char_upper(raw[k]) ELSE char_lower(raw[k])]

\* each maximal run of letters of raw capitalized
LetterRunsCapitalized(raw) ==
    [k \in 1..Len(raw) |->
        IF k > 1 /\ IsCased(raw[k - 1]) THEN char_lower(raw[k]) ELSE char_upper(raw[k])]

IsOOV(t) == lower(t) \notin DOMAIN word_casing_lookup

NextRaw(i) == IF i < Len(tokens) THEN tokens[i + 1] ELSE None

\* C1: a first token that is neither punctuation nor all digits is committed
\* with its first character upper-cased and the others lower-cased, whichever
\* path resolved it (scoring, single variant, out of vocabulary).
C1_SentenceInitial ==
    (Len(tokens_true_case) >= 1 /\ ~PunctuationOrDigits(tokens[1]))
        => SentenceInitialForm(tokens_true_case[1])

C3_BestVariant ==
    \A i \in 2..Len(tokens_true_case) :
        (/\ ~PunctuationOrDigits(tokens[i])
         /\ ~IsOOV(tokens[i])
         /\ Cardinality(word_casing_lookup[lower(tokens[i])]) >= 2)
        => /\ tokens_true_case[i] # None
           /\ tokens_true_case[i] \in word_casing_lookup[lower(tokens[i])]
           /\ \A u \in word_casing_lookup[lower(tokens[i])] :
                ~ScoreGreater(
                    get_score(Self, tokens_true_case[i - 1], u, NextRaw(i)),
                    get_score(Self, tokens_true_case[i - 1], tokens_true_case[i],
                              NextRaw(i)))

C3_Witness ==
    \E i \in 2..Len(tokens_true_case) :
        /\ i < Len(tokens)
        /\ ~PunctuationOrDigits(tokens[i]) /\ ~IsOOV(tokens[i])
        /\ tokens_true_case[i - 1] # tokens[i - 1]
        /\ \E u \in word_casing_lookup[lower(tokens[i])] :
              ScoreGreater(
                  get_score(Self, tokens_true_case[i - 1], tokens_true_case[i],
                            NextRaw(i)),
                  get_score(Self, tokens_true_case[i - 1], u, NextRaw(i)))

\* C4: a token that is punctuation or all digits is committed unchanged at its
\* own position, position 0 included.
C4_PassThrough ==
    \A i \in 1..Len(tokens_true_case) :
        PunctuationOrDigits(tokens[i]) => tokens_true_case[i] = tokens[i]

C4_Witness ==
    /\ Len(tokens_true_case) >= 2
    /\ option \in CallableOptions
    /\ isdigit(tokens[1]) /\ tokens_true_case[1] = tokens[1]
    /\ in_punctuation(tokens[2]) /\ tokens_true_case[2] = tokens[2]

\* C5: a token whose key has exactly one variant v is committed as v (at
\* position 0 as the sentence-initial form of v), whatever the raw casing, the
\* neighbours, the counts and the policy, and get_score is not called for it.
C5_SingleVariant ==
    \A i \in 1..Len(tokens_true_case) :
        (/\ ~PunctuationOrDigits(tokens[i])
         /\ ~IsOOV(tokens[i])
         /\ Cardinality(word_casing_lookup[lower(tokens[i])]) = 1)
        => LET v == CHOOSE v \in word_casing_lookup[lower(tokens[i])] : TRUE
           IN  /\ tokens_true_case[i] = IF i = 1 THEN capitalize(v) ELSE v
               /\ (i - 1) \notin scored

C5_Witness ==
    /\ Len(tokens_true_case) >= 2
    /\ word_casing_lookup = [k \in {Key} |-> {v_upper}]
    /\ tokens[1] = <<"a", "'", "B">> /\ tokens[2] = <<"a", "'", "B">>
    /\ tokens_true_case[1] = v_first
    /\ tokens_true_case[2] = v_upper
    /\ uni_dist[v_lower] = MaxCount

\* C8: for a candidate that is one of the variants of its own key, raising its
\* unigram count and nothing else never lowers get_score, whatever prev and
\* next are: checked for every call of get_score the loop has made (prev None
\* or the committed left neighbour, next None or the raw right neighbour).
Raised(self, candidate, d) ==
    [self EXCEPT !.uni_dist =
        [k \in (DOMAIN self.uni_dist) \cup {candidate} |->
            IF k = candidate THEN count(self.uni_dist, k) + d
            ELSE self.uni_dist[k]]]

PrevCommitted(i) == IF i > 1 THEN tokens_true_case[i - 1] ELSE None

C8_UnigramMonotone ==
    \A i \in 1..Len(tokens_true_case) :
        (i - 1) \in scored =>
            \A candidate \in word_casing_lookup[lower(tokens[i])] :
                lower(candidate) = lower(tokens[i]) =>
                    \A d \in {1, MaxCount + 1} :
                        ~ScoreGreater(
                            get_score(Self, PrevCommitted(i), candidate, NextRaw(i)),
                            get_score(Raised(Self, candidate, d), PrevCommitted(i),
                                      candidate, NextRaw(i)))

C8_Witness ==
    \E i \in 2..Len(tokens_true_case) :
        /\ (i - 1) \in scored
        /\ i < Len(tokens)
        /\ \E candidate \in word_casing_lookup[lower(tokens[i])] :
              /\ lower(candidate) = lower(tokens[i])
              /\ count(uni_dist, candidate) = MaxCount
              /\ ScoreGreater(
                     get_score(Raised(Self, candidate, 1), PrevCommitted(i),
                               candidate, NextRaw(i)),
                     get_score(Self, PrevCommitted(i), candidate, NextRaw(i)))

\* C9: a key that is present with an empty set of variants is handled like an
\* absent key: the policy applied to the raw token is committed and nothing
\* is raised.
C9_EmptyVariantSet ==
    /\ \A i \in 1..Len(tokens_true_case) :
          (/\ ~PunctuationOrDigits(tokens[i])
           /\ ~IsOOV(tokens[i])
           /\ word_casing_lookup[lower(tokens[i])] = {})
          => tokens_true_case[i] = out_of_vocabulary_handler(tokens[i], option)
    /\ pc # "raised"

\* C10: positions are processed in increasing order, each step appends one
\* token and leaves the earlier ones and the input as they were, and the
\* returned list is as long as the input.
C10_Step ==
    /\ tokens' = tokens
    /\ (pc = "loop" => Len(tokens_true_case) = token_idx)
    /\ (tokens_true_case' # tokens_true_case \/ token_idx' # token_idx)
         => /\ token_idx < Len(tokens)
            /\ Len(tokens_true_case') = token_idx + 1
            /\ SubSeq(tokens_true_case', 1, token_idx) = tokens_true_case
            /\ (pc' # "raised" => token_idx' = token_idx + 1)
    /\ (pc' = "returned" => Len(tokens_true_case') = Len(tokens))

C10_LeftToRight == [][C10_Step]_vars

C10_Witness ==
    /\ pc = "returned"
    /\ Len(tokens) = MaxSentenceLen
    /\ ~PunctuationOrDigits(tokens[1]) /\ ~IsOOV(tokens[1])
    /\ PunctuationOrDigits(tokens[2])
    /\ tokens_true_case[1] # tokens[1]

\* C7: two calls with the same tables, tokens and policy return the same
\* list, ties for the highest score included.
C7_Determinism ==
    pc = "returned" => tokens_true_case = rerun_true_case

\* C6 as claimed: whenever the tables meet the conditions of the scenario,
\* the call returns The United States is a country .  Stated for the tables
\* in which 'the' has a registered variant, where the first token is The
\* whatever the policy is.
ScenarioConditions ==
    /\ tokens = ScenarioTokens
    /\ w_united \in DOMAIN word_casing_lookup
    /\ word_casing_lookup[w_united] = {w_United, w_united}
    /\ w_states \in DOMAIN word_casing_lookup
    /\ word_casing_lookup[w_states] = {w_States, w_states}
    /\ count(backward_bi_dist, underscore(w_United, w_States))
         >= FarCount + count(backward_bi_dist, underscore(w_united, w_states))
    /\ \A k \in {w_is, w_a, w_country} :
          k \in DOMAIN word_casing_lookup /\ word_casing_lookup[k] = {k}

====
